---- MODULE Spec2Model ----
(***************************************************************************)
(* A model of src/router.ts (rudolph): the flat route matcher routePath,   *)
(* sub-router composition and navigate, createRouter, the hash location    *)
(* source locationHashB, and the trie registration addPath / buildTree.    *)
(*                                                                         *)
(* A JavaScript string is a sequence of one-character strings, so that     *)
(* split, join, indexOf and substr are computed and not assumed.           *)
(* Array and string indices are 0-based as in the source.                  *)
(***************************************************************************)
EXTENDS Integers, Sequences, FiniteSets, TLC

VARIABLES
    phase,           \* "setup": the routes object is being written; "routing": routePath
                     \* was called on it; "tree": buildTree was called on it
    routes,          \* the Routes object: its keys in insertion order; the handler of routes[i] is i
    parsedRoutes,    \* routePath's parsedRoutes
    location,        \* current value of the top router's path behavior
    result,          \* outcome of the last run of routePath's map callback
    supportHistory,  \* module constant supportHistory
    supportHash,     \* module constant supportHash
    url,             \* the window's current URL
    locationHashB,   \* value of the sink locationHashB
    created,         \* outcome of the last createRouter call
    chain,           \* routers met while descending through nested routePath calls, root first
    trail,           \* the path matched at each level of the descent
    navigated,       \* last call of the host navigation primitive
    tree             \* the Tree returned by buildTree

vars == <<phase, routes, parsedRoutes, location, result, supportHistory, supportHash,
          url, locationHashB, created, chain, trail, navigated, tree>>

routeVars == <<phase, routes, parsedRoutes, location, result>>
hostVars == <<supportHistory, supportHash, url, locationHashB, created>>
nestVars == <<chain, trail, navigated>>
treeVars == <<tree>>

-----------------------------------------------------------------------------
(* Bounds of the model *)

MaxRoutes == 2
MaxPatSegs == 2
MaxLocSegs == 2
MaxDepth == 2
MaxNestSegs == 3
MaxFragLen == 3

LitSegs == {<<>>, <<"a">>, <<"0">>}
ParamSegs == {<<":", "x">>, <<":", "y">>}
StarSeg == <<"*">>
PatSegs == LitSegs \cup ParamSegs \cup {StarSeg}
NavPaths == {<<"/", "a">>}
FragChars == {"/", "a"}
\* the part of the window's URL before the fragment
UrlBase == <<"h", ":", "/", "/", "x", "/">>

-----------------------------------------------------------------------------
(* JavaScript values and built-ins used by the source *)

\* the value undefined; differs from every string
Undefined == <<"undefined">>

EmptyObject == [k \in {} |-> Undefined]

\* obj[k] = v
Put(obj, k, v) == [x \in (DOMAIN obj) \cup {k} |-> IF x = k THEN v ELSE obj[x]]

Max(a, b) == IF a > b THEN a ELSE b
Min(a, b) == IF a < b THEN a ELSE b

\* str.indexOf(stop): 0-based index of the first occurrence, -1 when absent
indexOf(str, stop) ==
    IF \E i \in 1..Len(str) : str[i] = stop
    THEN (CHOOSE i \in 1..Len(str) : str[i] = stop /\ \A j \in 1..(i-1) : str[j] # stop) - 1
    ELSE -1

\* str.substr(from), from >= 0
substr(str, from) == SubSeq(str, from + 1, Len(str))

\* arr.slice(from, to)
slice(arr, from, to) == SubSeq(arr, Min(from, Len(arr)) + 1, Min(to, Len(arr)))

\* arr[i], undefined out of range
At(arr, i) == IF i >= 0 /\ i < Len(arr) THEN arr[i + 1] ELSE Undefined

RECURSIVE split(_, _)
\* str.split(sep) for a one-character separator
split(str, sep) ==
    LET k == indexOf(str, sep)
    IN  IF k = -1 THEN <<str>>
        ELSE <<SubSeq(str, 1, k)>> \o split(substr(str, k + 1), sep)

RECURSIVE join(_, _)
\* parts.join(sep)
join(parts, sep) ==
    IF Len(parts) = 0 THEN <<>>
    ELSE IF Len(parts) = 1 THEN parts[1]
    ELSE parts[1] \o <<sep>> \o join(Tail(parts), sep)

fst(arr) == At(arr, 0)

takeUntilRight(stop, str) == substr(str, indexOf(str, stop) + 1)

\* a sparse JavaScript array: its length and the indices that are set
EmptyArray == [length |-> 0, items |-> EmptyObject]
ArraySet(arr, i, v) == [length |-> Max(arr.length, i + 1), items |-> Put(arr.items, i, v)]

Digits == {"0", "1", "2", "3", "4", "5", "6", "7", "8", "9"}
DigitVal(c) == CHOOSE n \in 0..9 : <<"0", "1", "2", "3", "4", "5", "6", "7", "8", "9">>[n + 1] = c

RECURSIVE NumVal(_)
NumVal(str) == IF Len(str) = 0 THEN 0
               ELSE 10 * NumVal(SubSeq(str, 1, Len(str) - 1)) + DigitVal(str[Len(str)])

\* a property key that is an array index: a canonical decimal numeral below
\* 2^32 - 1; the numerals of up to nine digits all are, longer ones are taken
\* as ordinary keys
IsArrayIndex(key) ==
    /\ Len(key) > 0
    /\ \A i \in 1..Len(key) : key[i] \in Digits
    /\ (Len(key) > 1 => key[1] # "0")
    /\ Len(key) <= 9

RECURSIVE SortKeys(_)
\* the integer keys in ascending numeric order
SortKeys(keys) ==
    IF keys = {} THEN <<>>
    ELSE LET least == CHOOSE k \in keys : \A o \in keys : NumVal(k) <= NumVal(o)
         IN  <<least>> \o SortKeys(keys \ {least})

\* as ObjectKeys, but every key in insertion order
ObjectKeysInsertion(obj) == obj

\* Object.keys(obj): the array-index keys ascending, then the others in insertion order
ObjectKeys(obj) ==
    SortKeys({obj[i] : i \in {j \in 1..Len(obj) : IsArrayIndex(obj[j])}})
        \o SelectSeq(obj, LAMBDA k : ~IsArrayIndex(k))

\* routes[path]: the handler stored under the key
HandlerOf(obj, path) == CHOOSE i \in 1..Len(obj) : obj[i] = path

-----------------------------------------------------------------------------
(* Inputs *)

SeqsUpTo(S, n) == UNION {[1..k -> S] : k \in 1..n}

Patterns == {join(s, "/") : s \in SeqsUpTo(PatSegs, MaxPatSegs)}
Locations == {join(s, "/") : s \in SeqsUpTo(LitSegs, MaxLocSegs)}
NestLocations == {join(s, "/") : s \in SeqsUpTo(LitSegs, MaxNestSegs)}
Fragments == {<<>>} \cup SeqsUpTo(FragChars, MaxFragLen)
Urls == {UrlBase} \cup {UrlBase \o <<"#">> \o f : f \in Fragments}

-----------------------------------------------------------------------------
(* parsePathPattern and routePath *)

RECURSIVE parseLoopFirstWins(_, _, _)
\* as parseLoop, but a repeated parameter name keeps its first index
parseLoopFirstWins(patternParts, i, p) ==
    IF i >= Len(patternParts) THEN p
    ELSE LET part == At(patternParts, i)
         IN  IF fst(part) = ":"
             THEN parseLoopFirstWins(patternParts, i + 1,
                     IF substr(part, 1) \in DOMAIN p.params THEN p
                     ELSE [p EXCEPT !.params = Put(@, substr(part, 1), i)])
             ELSE parseLoopFirstWins(patternParts, i + 1,
                     [p EXCEPT !.path = ArraySet(@, i, part)])

RECURSIVE parseLoop(_, _, _)
\* the for loop of parsePathPattern, from index i on
parseLoop(patternParts, i, p) ==
    IF i >= Len(patternParts) THEN p
    ELSE LET part == At(patternParts, i)
         IN  IF fst(part) = ":"
             THEN parseLoop(patternParts, i + 1,
                            [p EXCEPT !.params = Put(@, substr(part, 1), i)])
             ELSE parseLoop(patternParts, i + 1,
                            [p EXCEPT !.path = ArraySet(@, i, part)])

parsePathPattern(pattern, handler) ==
    LET patternParts == split(pattern, "/")
        p == [path |-> EmptyArray, params |-> EmptyObject,
              length |-> Len(patternParts), handler |-> handler]
    IN  IF pattern = <<"*">> THEN p ELSE parseLoop(patternParts, 0, p)

\* as compatible, but the location must also have exactly the pattern's length
compatibleExact(parsed, locationParts) ==
    /\ \A index \in DOMAIN parsed.path.items :
          parsed.path.items[index] = At(locationParts, index)
    /\ Len(locationParts) = parsed.length

\* the predicate handed to parsedRoutes.find: path.every(...) visits the indices
\* that are set and skips the holes
compatible(parsed, locationParts) ==
    \A index \in DOMAIN parsed.path.items :
        parsed.path.items[index] = At(locationParts, index)

\* as find, but falls back to the first route when nothing is compatible
findOrFirst(parsed, locationParts) ==
    IF \E i \in 1..Len(parsed) : compatible(parsed[i], locationParts)
    THEN CHOOSE i \in 1..Len(parsed) :
             /\ compatible(parsed[i], locationParts)
             /\ \A j \in 1..(i-1) : ~compatible(parsed[j], locationParts)
    ELSE IF Len(parsed) > 0 THEN 1 ELSE 0

\* as find, but the last compatible route wins
findLast(parsed, locationParts) ==
    IF \E i \in 1..Len(parsed) : compatible(parsed[i], locationParts)
    THEN CHOOSE i \in 1..Len(parsed) :
             /\ compatible(parsed[i], locationParts)
             /\ \A j \in (i+1)..Len(parsed) : ~compatible(parsed[j], locationParts)
    ELSE 0

\* parsedRoutes.find(...): the position (from 1) of the first element satisfying
\* the predicate; 0 stands for the result undefined
find(parsed, locationParts) ==
    IF \E i \in 1..Len(parsed) : compatible(parsed[i], locationParts)
    THEN CHOOSE i \in 1..Len(parsed) :
             /\ compatible(parsed[i], locationParts)
             /\ \A j \in 1..(i-1) : ~compatible(parsed[j], locationParts)
    ELSE 0

NoRouter == [prefixPath |-> Undefined, path |-> Undefined, config |-> Undefined]
NoResult == [status |-> "none", handler |-> 0, router |-> NoRouter, params |-> EmptyObject]

\* as newRouter, but the parent's prefix is dropped
newRouterNoPrefix(router, matchedPath, rest) ==
    [prefixPath |-> matchedPath, path |-> rest, config |-> router.config]

\* the sub-router handed to the handler
newRouter(router, matchedPath, rest) ==
    [prefixPath |-> router.prefixPath \o matchedPath, path |-> rest, config |-> router.config]

\* the callback mapped over router.path
routeLocation(parsed, router, loc) ==
    LET locationParts == split(loc, "/")
        found == find(parsed, locationParts)
        match == parsed[found]
    IN  IF found = 0
        THEN [NoResult EXCEPT !.status = "TypeError"]   \* match.length of undefined
        ELSE LET rest == <<"/">> \o join(slice(locationParts, match.length, Len(locationParts)), "/")
                 matchedPath == join(slice(locationParts, 0, match.length), "/")
             IN  [status |-> "ok",
                  handler |-> match.handler,
                  router |-> newRouter(router, matchedPath, rest),
                  params |-> [key \in DOMAIN match.params |->
                                 At(locationParts, match.params[key])]]

parseRoutes(obj) ==
    LET keys == ObjectKeys(obj)
    IN  [i \in 1..Len(keys) |-> parsePathPattern(keys[i], HandlerOf(obj, keys[i]))]

TopRouter == [prefixPath |-> <<>>, path |-> location, config |-> [useHash |-> TRUE]]

-----------------------------------------------------------------------------
(* createRouter, the hash location source, navigate *)

\* window.location.hash: "" without a fragment or with an empty one, else "#" and the fragment
windowLocationHash(u) ==
    LET k == indexOf(u, "#")
    IN  IF k = -1 \/ k = Len(u) - 1 THEN <<>> ELSE substr(u, k)

\* a || b on strings: the empty string is falsy
orElse(a, b) == IF a = <<>> THEN b ELSE a

NotCreated == [status |-> "none", message |-> "", useHash |-> FALSE, router |-> NoRouter]

createRouter(config) ==
    IF config.useHash /\ ~supportHash
    THEN [status |-> "Error", message |-> "No support for hash-routing.",
          useHash |-> config.useHash, router |-> NoRouter]
    ELSE IF ~supportHistory
    THEN [status |-> "Error", message |-> "No support for history API.",
          useHash |-> config.useHash, router |-> NoRouter]
    ELSE [status |-> "ok", message |-> "", useHash |-> config.useHash,
          router |-> [prefixPath |-> <<>>,
                      path |-> IF config.useHash THEN "locationHashB" ELSE "locationB",
                      config |-> config]]

NoNavigation == [primitive |-> "none", url |-> Undefined, locationB |-> Undefined,
                 depth |-> 0, path |-> Undefined]

\* navigate(router, pathStream) at an occurrence of pathStream
navigate(router, path, depth) ==
    LET newUrl == router.prefixPath \o path
    IN  IF router.config.useHash
        THEN [primitive |-> "location.hash", url |-> newUrl, locationB |-> Undefined,
              depth |-> depth, path |-> path]
        ELSE [primitive |-> "pushState", url |-> newUrl, locationB |-> newUrl,
              depth |-> depth, path |-> path]

-----------------------------------------------------------------------------
(* Trie registration *)

NoHandler == 0

newTree(index) ==
    [params |-> EmptyObject, subtree |-> EmptyObject, index |-> index, handler |-> NoHandler]

RECURSIVE nodeAt(_, _)
\* the node reached from tree along the keys of ptr
nodeAt(t, ptr) == IF ptr = <<>> THEN t ELSE nodeAt(t.subtree[Head(ptr)], Tail(ptr))

RECURSIVE setNode(_, _, _)
\* the tree after the node at ptr was mutated into node
setNode(t, ptr, node) ==
    IF ptr = <<>> THEN node
    ELSE [t EXCEPT !.subtree = Put(@, Head(ptr), setNode(t.subtree[Head(ptr)], Tail(ptr), node))]

RECURSIVE addLoop(_, _, _, _, _)
\* nodes.forEach of addPath from position index on, then parent.handler = handler;
\* parent is held as the keys leading to it
addLoop(t, nodes, index, parent, handler) ==
    IF index >= Len(nodes)
    THEN setNode(t, parent, [nodeAt(t, parent) EXCEPT !.handler = handler])
    ELSE LET node == At(nodes, index)
             at == nodeAt(t, parent)
         IN  IF fst(node) = ":"
             THEN addLoop(setNode(t, parent, [at EXCEPT !.params = Put(@, index, substr(node, 1))]),
                          nodes, index + 1, parent, handler)
             ELSE IF node \notin DOMAIN at.subtree
             THEN addLoop(setNode(t, parent, [at EXCEPT !.subtree = Put(@, node, newTree(index))]),
                          nodes, index + 1, Append(parent, node), handler)
             ELSE addLoop(t, nodes, index + 1, Append(parent, node), handler)

addPath(t, path, handler) == addLoop(t, split(path, "/"), 0, <<>>, handler)

RECURSIVE reduceAddPath(_, _, _)
reduceAddPath(t, keys, obj) ==
    IF keys = <<>> THEN t
    ELSE reduceAddPath(addPath(t, Head(keys), HandlerOf(obj, Head(keys))), Tail(keys), obj)

buildTree(obj) == reduceAddPath(newTree(0), ObjectKeys(obj), obj)

-----------------------------------------------------------------------------
(* Initial states *)

InitRoute ==
    /\ phase = "setup"
    /\ routes = <<>>
    /\ parsedRoutes = <<>>
    /\ location = <<"/">>
    /\ result = NoResult

IdleHost ==
    /\ supportHistory = TRUE
    /\ supportHash = TRUE
    /\ url = UrlBase
    /\ locationHashB = <<"/">>
    /\ created = NotCreated

IdleNest ==
    /\ chain = <<>>
    /\ trail = <<>>
    /\ navigated = NoNavigation

IdleTree == tree = newTree(0)

Init == InitRoute /\ IdleHost /\ IdleNest /\ IdleTree

\* the module is loaded in some window: the support flags are computed and
\* locationHashB takes its first value
InitHost ==
    /\ supportHistory \in BOOLEAN
    /\ supportHash \in BOOLEAN
    /\ url \in Urls
    /\ locationHashB = orElse(takeUntilRight("#", windowLocationHash(url)), <<"/">>)
    /\ created = NotCreated
    /\ InitRoute /\ IdleNest /\ IdleTree

\* a router was created on some location
InitNest ==
    /\ \E loc \in NestLocations, useHash \in BOOLEAN :
          chain = <<[prefixPath |-> <<>>, path |-> loc, config |-> [useHash |-> useHash]]>>
    /\ trail = <<>>
    /\ navigated = NoNavigation
    /\ InitRoute /\ IdleHost /\ IdleTree

-----------------------------------------------------------------------------
(* Flat matcher *)

\* routes[pattern] = handler, for a key not yet present
Register(pattern) ==
    /\ phase = "setup"
    /\ Len(routes) < MaxRoutes
    /\ \A i \in 1..Len(routes) : routes[i] # pattern
    /\ routes' = Append(routes, pattern)
    /\ UNCHANGED <<phase, parsedRoutes, location, result>>
    /\ UNCHANGED <<hostVars, nestVars, treeVars>>

\* routePath(routes, router): the patterns are parsed and the callback runs on the current location
RoutePath ==
    /\ phase = "setup"
    /\ phase' = "routing"
    /\ parsedRoutes' = parseRoutes(routes)
    /\ result' = routeLocation(parsedRoutes', TopRouter, location)
    /\ UNCHANGED <<routes, location>>
    /\ UNCHANGED <<hostVars, nestVars, treeVars>>

\* the location source pushes a new value and the callback runs again
Push(loc) ==
    /\ phase = "routing"
    /\ location' = loc
    /\ result' = routeLocation(parsedRoutes, [TopRouter EXCEPT !.path = loc], loc)
    /\ UNCHANGED <<phase, routes, parsedRoutes>>
    /\ UNCHANGED <<hostVars, nestVars, treeVars>>

NextRoute ==
    \/ \E pattern \in Patterns : Register(pattern)
    \/ RoutePath
    \/ \E loc \in Locations : Push(loc)

SpecRoute == Init /\ [][NextRoute]_vars

-----------------------------------------------------------------------------
(* Host: createRouter and the hashchange listener *)

CreateRouter(useHash) ==
    /\ created' = createRouter([useHash |-> useHash])
    /\ UNCHANGED <<supportHistory, supportHash, url, locationHashB>>
    /\ UNCHANGED <<routeVars, nestVars, treeVars>>

\* the window moves to a URL with another fragment and the listener of line 58 runs
HashChange(newURL) ==
    /\ windowLocationHash(newURL) # windowLocationHash(url)
    /\ url' = newURL
    /\ locationHashB' = takeUntilRight("#", newURL)
    /\ UNCHANGED <<supportHistory, supportHash, created>>
    /\ UNCHANGED <<routeVars, nestVars, treeVars>>

NextHost ==
    \/ \E useHash \in BOOLEAN : CreateRouter(useHash)
    \/ \E newURL \in Urls : HashChange(newURL)

SpecHost == InitHost /\ [][NextHost]_vars

-----------------------------------------------------------------------------
(* Nested routers *)

Last(seq) == seq[Len(seq)]

\* the handler reached at the deepest level calls routePath({pattern: handler}, router)
\* with the sub-router it was given, and the pattern matches
Descend(pattern) ==
    /\ Len(chain) <= MaxDepth
    /\ LET router == Last(chain)
           res == routeLocation(parseRoutes(<<pattern>>), router, router.path)
           parts == split(router.path, "/")
       IN  /\ res.status = "ok"
           /\ chain' = Append(chain, res.router)
           /\ trail' = Append(trail,
                  join(SubSeq(parts, 1, Min(Len(split(pattern, "/")), Len(parts))), "/"))
    /\ UNCHANGED navigated
    /\ UNCHANGED <<routeVars, hostVars, treeVars>>

\* the handler at the deepest level navigates to path through its router
Navigate(path) ==
    /\ navigated' = navigate(Last(chain), path, Len(chain))
    /\ UNCHANGED <<chain, trail>>
    /\ UNCHANGED <<routeVars, hostVars, treeVars>>

NextNest ==
    \/ \E pattern \in Patterns : Descend(pattern)
    \/ \E path \in NavPaths : Navigate(path)

SpecNest == InitNest /\ [][NextNest]_vars

-----------------------------------------------------------------------------
(* Trie *)

BuildTree ==
    /\ phase = "setup"
    /\ phase' = "tree"
    /\ tree' = buildTree(routes)
    /\ UNCHANGED <<routes, parsedRoutes, location, result>>
    /\ UNCHANGED <<hostVars, nestVars>>

NextTree ==
    \/ \E pattern \in Patterns : Register(pattern)
    \/ BuildTree

SpecTree == Init /\ [][NextTree]_vars

-----------------------------------------------------------------------------
(* Vocabulary of the properties: patterns and locations read segment by segment *)

Segs(str) == split(str, "/")
IsParamSeg(seg) == Len(seg) > 0 /\ seg[1] = ":"
ParamName(seg) == SubSeq(seg, 2, Len(seg))
IsWildcard(pattern) == pattern = <<"*">>
LiteralOnly(pattern) ==
    ~IsWildcard(pattern) /\ \A i \in 1..Len(Segs(pattern)) : ~IsParamSeg(Segs(pattern)[i])
HasLiteral(pattern) ==
    ~IsWildcard(pattern) /\ \E i \in 1..Len(Segs(pattern)) : ~IsParamSeg(Segs(pattern)[i])

\* every literal segment of the pattern is found at its position in the location
LiteralsSatisfied(pattern, loc) ==
    \/ IsWildcard(pattern)
    \/ \A i \in 1..Len(Segs(pattern)) :
          ~IsParamSeg(Segs(pattern)[i]) =>
              i <= Len(Segs(loc)) /\ Segs(loc)[i] = Segs(pattern)[i]

\* the key obj[i] is enumerated before the key obj[j]
KeyBefore(obj, i, j) ==
    IF IsArrayIndex(obj[i])
    THEN IsArrayIndex(obj[j]) => NumVal(obj[i]) < NumVal(obj[j])
    ELSE ~IsArrayIndex(obj[j]) /\ i < j

Routed == phase = "routing"
Invoked == Routed /\ result.status = "ok"

\* C1: when no registered pattern has its literal constraints satisfied by the
\* location, the evaluation throws: no handler is invoked, no result is made up
C1_NoMatchThrows ==
    (Routed /\ \A i \in 1..Len(routes) : ~LiteralsSatisfied(routes[i], location))
        => (result.status = "TypeError" /\ result.handler = 0)

C1_Witness ==
    /\ Routed
    /\ Len(routes) = 2
    /\ \A i \in 1..Len(routes) : ~LiteralsSatisfied(routes[i], location)
    /\ result.status = "TypeError"

\* C2 as stated: a lone literal pattern matches iff the location has exactly
\* the pattern's segments, and then the params are empty
C2_ExactMatchOnly ==
    (Routed /\ Len(routes) = 1 /\ LiteralOnly(routes[1]))
        => /\ (result.status = "ok") <=> (Segs(location) = Segs(routes[1]))
           /\ result.status = "ok" => DOMAIN result.params = {}

\* C2 amended: a lone literal pattern matches iff its segments are the leading
\* segments of the location, position for position, and then the params are empty
C2_PrefixMatch ==
    (Routed /\ Len(routes) = 1 /\ LiteralOnly(routes[1]))
        => /\ (result.status = "ok") <=>
                  /\ Len(Segs(routes[1])) <= Len(Segs(location))
                  /\ SubSeq(Segs(location), 1, Len(Segs(routes[1]))) = Segs(routes[1])
           /\ result.status = "ok" => DOMAIN result.params = {}

C2_Witness ==
    /\ Invoked
    /\ Len(routes) = 1
    /\ LiteralOnly(routes[1])
    /\ Len(Segs(location)) > Len(Segs(routes[1]))
    /\ result.handler = 1

\* C3 as stated: the handler invoked is that of the first compatible pattern
\* in registration order
C3_FirstRegistered ==
    Invoked =>
        /\ LiteralsSatisfied(routes[result.handler], location)
        /\ \A i \in 1..(result.handler - 1) : ~LiteralsSatisfied(routes[i], location)

\* C3 amended: the handler invoked is that of the first compatible pattern in
\* the enumeration order of the table's keys (array-index keys ascending first,
\* then the other keys in registration order)
C3_FirstEnumerated ==
    Invoked =>
        /\ result.handler \in 1..Len(routes)
        /\ LiteralsSatisfied(routes[result.handler], location)
        /\ \A i \in 1..Len(routes) :
              (i # result.handler /\ KeyBefore(routes, i, result.handler))
                  => ~LiteralsSatisfied(routes[i], location)

C3_Witness ==
    /\ Invoked
    /\ Len(routes) = 2
    /\ \A i \in 1..2 : LiteralsSatisfied(routes[i], location)
    /\ IsArrayIndex(routes[2])
    /\ result.handler = 2

\* C4 as stated: the "*" handler is invoked only if no pattern with literal
\* constraints is compatible with the location, wherever "*" stands
C4_WildcardLast ==
    (Invoked /\ IsWildcard(routes[result.handler]))
        => \A i \in 1..Len(routes) :
              HasLiteral(routes[i]) => ~LiteralsSatisfied(routes[i], location)

\* C4 amended: the "*" handler is invoked only if no pattern enumerated before
\* "*" is compatible with the location
C4_WildcardAfterEarlier ==
    (Invoked /\ IsWildcard(routes[result.handler]))
        => \A i \in 1..Len(routes) :
              (i # result.handler /\ KeyBefore(routes, i, result.handler))
                  => ~LiteralsSatisfied(routes[i], location)

C4_Witness ==
    /\ Invoked
    /\ Len(routes) = 2
    /\ IsWildcard(routes[2])
    /\ HasLiteral(routes[1])
    /\ ~LiteralsSatisfied(routes[1], location)
    /\ result.handler = 2

\* C6 as stated: a handler is never invoked for a non-wildcard pattern when the
\* location has fewer segments than the pattern, and no parameter is undefined
C6_ShortPathNoMatch ==
    Routed =>
        /\ \A i \in 1..Len(routes) :
              (~IsWildcard(routes[i]) /\ Len(Segs(location)) < Len(Segs(routes[i])))
                  => /\ ~compatible(parsePathPattern(routes[i], i), split(location, "/"))
                     /\ result.handler # i
        /\ \A key \in DOMAIN result.params : result.params[key] # Undefined

\* the location is the pattern with a sample value in place of each parameter
IsInstance(pattern, loc) ==
    /\ ~IsWildcard(pattern)
    /\ Len(Segs(loc)) = Len(Segs(pattern))
    /\ LiteralsSatisfied(pattern, loc)

ParamPositions(pattern) == {i \in 1..Len(Segs(pattern)) : IsParamSeg(Segs(pattern)[i])}

\* C7 as stated: matching an instance of a lone pattern succeeds and binds the
\* name of every parameter segment to the location segment at its index
C7_RoundTripEach ==
    (Routed /\ Len(routes) = 1 /\ IsInstance(routes[1], location))
        => /\ result.status = "ok"
           /\ DOMAIN result.params =
                  {ParamName(Segs(routes[1])[i]) : i \in ParamPositions(routes[1])}
           /\ \A i \in ParamPositions(routes[1]) :
                  result.params[ParamName(Segs(routes[1])[i])] = Segs(location)[i]

\* C7 amended: matching an instance of a lone pattern succeeds and binds every
\* parameter name to the location segment at the index of the last segment
\* bearing that name
C7_RoundTripLast ==
    (Routed /\ Len(routes) = 1 /\ IsInstance(routes[1], location))
        => /\ result.status = "ok"
           /\ DOMAIN result.params =
                  {ParamName(Segs(routes[1])[i]) : i \in ParamPositions(routes[1])}
           /\ \A i \in ParamPositions(routes[1]) :
                  (\A j \in ParamPositions(routes[1]) :
                       Segs(routes[1])[j] = Segs(routes[1])[i] => j <= i)
                      => result.params[ParamName(Segs(routes[1])[i])] = Segs(location)[i]

C7_Witness ==
    /\ Invoked
    /\ Len(routes) = 1
    /\ IsInstance(routes[1], location)
    /\ Cardinality(ParamPositions(routes[1])) = 2
    /\ Cardinality(DOMAIN result.params) = 2
    /\ Segs(location)[1] # Segs(location)[2]

\* C5 as stated: createRouter throws exactly when the requested mode is not
\* supported (hash mode: hashchange missing; history mode: history API missing),
\* and otherwise returns a router with prefixPath "" on the requested source
C5_ThrowsIffModeUnsupported ==
    created.status # "none" =>
        /\ (created.status = "Error") <=>
               (IF created.useHash THEN ~supportHash ELSE ~supportHistory)
        /\ created.status = "ok" =>
               /\ created.router.prefixPath = <<>>
               /\ created.router.path =
                      (IF created.useHash THEN "locationHashB" ELSE "locationB")

RECURSIVE Concat(_)
Concat(seqs) == IF seqs = <<>> THEN <<>> ELSE Head(seqs) \o Concat(Tail(seqs))

\* C8: the prefixPath of the deepest sub-router is the concatenation, in descent
\* order, of the paths matched at each level; its length never decreases down
\* the chain; a path navigated through a sub-router reaches the host primitive
\* prefixed by that sub-router's prefixPath
C8_PrefixIsConcatenation ==
    chain # <<>> =>
        /\ chain[1].prefixPath = <<>>
        /\ \A d \in 1..Len(chain) : chain[d].prefixPath = Concat(SubSeq(trail, 1, d - 1))
        /\ \A d \in 1..(Len(chain) - 1) :
              Len(chain[d].prefixPath) <= Len(chain[d + 1].prefixPath)
        /\ navigated.primitive # "none" =>
              navigated.url = Concat(SubSeq(trail, 1, navigated.depth - 1)) \o navigated.path

C8_Witness ==
    /\ Len(chain) = 3
    /\ chain[1].path = <<"/", "a", "/", "0">>
    /\ trail = << <<"/", "a">>, <<"/", "0">> >>
    /\ chain[3].prefixPath = <<"/", "a", "/", "0">>
    /\ navigated.depth = 3
    /\ navigated.url = <<"/", "a", "/", "0", "/", "a">>

\* the literal segments of a pattern: the edges its registration walks
LiteralSegs(pattern) == SelectSeq(Segs(pattern), LAMBDA seg : ~IsParamSeg(seg))

\* C9 as stated: after buildTree, walking any registered pattern from the root
\* ends at a node holding that pattern's own handler
C9_EveryHandlerKept ==
    phase = "tree" =>
        \A i \in 1..Len(routes) : nodeAt(tree, LiteralSegs(routes[i])).handler = i

\* the path the hash source should hold for a URL
FragmentPath(u) ==
    LET k == indexOf(u, "#")
    IN  IF k = -1 \/ k = Len(u) - 1 THEN <<"/">> ELSE SubSeq(u, k + 2, Len(u))

\* C10 as stated: the hash location source always holds the text after the '#'
\* of the current URL, or "/" when there is no fragment or an empty one; it
\* never holds a '#' nor the part of the URL before the fragment
C10_HashSourceIsPlainPath ==
    /\ locationHashB = FragmentPath(url)
    /\ \A i \in 1..Len(locationHashB) : locationHashB[i] # "#"
    /\ ~(Len(locationHashB) >= Len(UrlBase)
           /\ SubSeq(locationHashB, 1, Len(UrlBase)) = UrlBase)

====
